---- MODULE Spec2Model ----
(***************************************************************************)
(* A model of cson.h (dylaris/cson): the value tree and its mutation and    *)
(* query API, the writer (cson_write), the lexer and the recursive-descent  *)
(* parser (cson_load_buffer).                                               *)
(*                                                                          *)
(* Text is a sequence of one-character strings without its terminating NUL; *)
(* a char pointer is either such a sequence or NULL.  A double is modelled  *)
(* by its decimal expansion (sign, integer digits, fraction digits).  A     *)
(* node is a record with one field per member of struct cson_node; the      *)
(* container's `len` is Len(items).  A driver program holds its nodes in    *)
(* local variables (`stack`) and calls the API one call per step.           *)
(***************************************************************************)
EXTENDS Integers, Sequences, FiniteSets, Bags, TLC

\* ---------------------------------------------------------------- bounds
MaxNodes == 2       \* nodes a run may create with the cson_create_* calls
MaxIdx == 3         \* largest index handed to cson_remove_with_idx
MaxRemoves == 2     \* cson_remove_with_key and cson_remove_with_idx calls of a run

\* ------------------------------------------------------------- characters
NULL == <<"NULL">>                  \* the null pointer (no text equals it)
NUL == "NUL"                        \* the byte '\0' that ends a buffer

DigitChars == <<"0", "1", "2", "3", "4", "5", "6", "7", "8", "9">>

isdigit(ch) == \E i \in 1..10 : DigitChars[i] = ch

isspace(ch) == ch \in {" ", "\n", "\t", "\r"}

isalpha(ch) ==
    ch \in {"a", "b", "c", "d", "e", "f", "g", "h", "i", "j", "k", "l", "m",
            "n", "o", "p", "q", "r", "s", "t", "u", "v", "w", "x", "y", "z",
            "A", "B", "C", "D", "E", "F", "G", "H", "I", "J", "K", "L", "M",
            "N", "O", "P", "Q", "R", "S", "T", "U", "V", "W", "X", "Y", "Z"}

strlen(s) == Len(s)

\* What the build makes of undefined behaviour: the process dies, or the
\* call goes on the way glibc on x86-64 goes on.
UBOutcomes == {"crash", "lenient"}

\* ---------------------------------------------------------------- numbers
\* A double by its decimal expansion: int has no leading zero, frac has no
\* trailing zero; zero is the two empty sequences.
Num(neg, int, frac) == [neg |-> neg, int |-> int, frac |-> frac]

Zero == Num(FALSE, <<>>, <<>>)

\* ------------------------------------------------------------------ nodes
CSON_NULL == "CSON_NULL"
CSON_BOOLEAN == "CSON_BOOLEAN"
CSON_NUMBER == "CSON_NUMBER"
CSON_STRING == "CSON_STRING"
CSON_ARRAY == "CSON_ARRAY"
CSON_OBJECT == "CSON_OBJECT"

cson_node_kind_t ==
    {CSON_NULL, CSON_BOOLEAN, CSON_NUMBER, CSON_STRING, CSON_ARRAY, CSON_OBJECT}

\* struct cson_node; the members of the union that a kind does not use hold
\* the values below.
cson_node(kind, key, boolean, number, string, items, cap) ==
    [kind |-> kind, key |-> key, boolean |-> boolean, number |-> number,
     string |-> string, items |-> items, cap |-> cap]

\* memset(&node, 0, sizeof(node))
ZeroNode == cson_node(CSON_NULL, NULL, FALSE, Zero, NULL, <<>>, 0)

cson__strndup(s, len) == IF s = NULL THEN NULL ELSE SubSeq(s, 1, len)

cson_create_container(kind, key) ==
    cson_node(kind, IF key # NULL THEN cson__strndup(key, strlen(key)) ELSE NULL,
              FALSE, Zero, NULL, <<>>, 0)

cson_create_object(key) == cson_create_container(CSON_OBJECT, key)

cson_create_array(key) == cson_create_container(CSON_ARRAY, key)

cson_create_number(key, value) ==
    cson_node(CSON_NUMBER, IF key # NULL THEN cson__strndup(key, strlen(key)) ELSE NULL,
              FALSE, value, NULL, <<>>, 0)

cson_create_boolean(key, value) ==
    cson_node(CSON_BOOLEAN, IF key # NULL THEN cson__strndup(key, strlen(key)) ELSE NULL,
              value, Zero, NULL, <<>>, 0)

cson_create_string(key, value) ==
    cson_node(CSON_STRING, IF key # NULL THEN cson__strndup(key, strlen(key)) ELSE NULL,
              FALSE, Zero,
              IF value # NULL THEN cson__strndup(value, strlen(value)) ELSE NULL,
              <<>>, 0)

cson_create_null(key) ==
    cson_node(CSON_NULL, IF key # NULL THEN cson__strndup(key, strlen(key)) ELSE NULL,
              FALSE, Zero, NULL, <<>>, 0)

\* ------------------------------------------------------------ mutation API
\* Every API operator returns a record whose status is "ok", "fatal"
\* (cson__fatal: diagnostic and abort()) or "crash" (undefined behaviour
\* that killed the process).

\* Mutant of realloc: the new block does not hold the old elements.
realloc_fresh(items, cap) == [i \in 1..Len(items) |-> ZeroNode]

\* realloc keeps the elements already stored.
realloc(items, cap) == items

cson_append(node, item) ==
    IF node.kind # CSON_OBJECT /\ node.kind # CSON_ARRAY
    THEN [status |-> "fatal", node |-> node]
    ELSE LET grow == Len(node.items) + 1 > node.cap
             cap == IF grow THEN (IF node.cap < 16 THEN 16 ELSE 2 * node.cap)
                    ELSE node.cap
             items == IF grow THEN realloc(node.items, cap) ELSE node.items
         IN  [status |-> "ok",
              node |-> [node EXCEPT !.cap = cap, !.items = Append(items, item)]]

\* strcmp(a, b) == 0; a null first argument is undefined behaviour.
strcmp_eq(a, b) == a = b

\* The for loop of cson_query from index i (0-based) on.
RECURSIVE cson_query_from(_, _, _, _)
cson_query_from(root, key, i, ub) ==
    IF ~(i < Len(root.items)) THEN [status |-> "ok", ret |-> -1]
    ELSE LET node == root.items[i + 1]
         IN  IF node.key = NULL
             THEN IF ub = "crash" THEN [status |-> "crash", ret |-> -1]
                  ELSE cson_query_from(root, key, i + 1, ub)
             ELSE IF strcmp_eq(node.key, key) THEN [status |-> "ok", ret |-> i]
                  ELSE cson_query_from(root, key, i + 1, ub)

\* ret is the index of the child the returned pointer refers to, -1 for a
\* null pointer.
cson_query(root, key, ub) ==
    IF root.kind # CSON_OBJECT THEN [status |-> "fatal", ret |-> -1]
    ELSE IF key = NULL THEN [status |-> "ok", ret |-> -1]
    ELSE cson_query_from(root, key, 0, ub)

\* Mutant of swap_and_pop: the elements after idx move down by one.
remove_stable(items, idx) ==
    SubSeq(items, 1, idx) \o SubSeq(items, idx + 2, Len(items))

\* items[idx] = items[len-1]; len--
swap_and_pop(items, idx) ==
    SubSeq([items EXCEPT ![idx + 1] = items[Len(items)]], 1, Len(items) - 1)

\* Mutant of cson_remove_with_key: the last child is dropped, not copied.
cson_remove_with_key_no_copy(node, key, ub) ==
    IF node.kind # CSON_OBJECT THEN [status |-> "fatal", node |-> node]
    ELSE LET removed_node == cson_query(node, key, ub)
         IN  IF removed_node.status # "ok"
             THEN [status |-> removed_node.status, node |-> node]
             ELSE IF removed_node.ret = -1 THEN [status |-> "ok", node |-> node]
             ELSE [status |-> "ok",
                   node |-> [node EXCEPT !.items = SubSeq(@, 1, Len(@) - 1)]]

cson_remove_with_key(node, key, ub) ==
    IF node.kind # CSON_OBJECT THEN [status |-> "fatal", node |-> node]
    ELSE LET removed_node == cson_query(node, key, ub)
         IN  IF removed_node.status # "ok"
             THEN [status |-> removed_node.status, node |-> node]
             ELSE IF removed_node.ret = -1 THEN [status |-> "ok", node |-> node]
             ELSE [status |-> "ok",
                   node |-> [node EXCEPT !.items = swap_and_pop(@, removed_node.ret)]]

\* Mutant of cson_remove_with_idx: the bounds check lets idx == len pass.
cson_remove_with_idx_off_by_one(node, idx) ==
    IF node.kind # CSON_ARRAY THEN [status |-> "fatal", node |-> node]
    ELSE IF idx > Len(node.items) THEN [status |-> "fatal", node |-> node]
    ELSE [status |-> "ok", node |-> [node EXCEPT !.items = swap_and_pop(@, idx)]]

cson_remove_with_idx(node, idx) ==
    IF node.kind # CSON_ARRAY THEN [status |-> "fatal", node |-> node]
    ELSE IF idx >= Len(node.items) THEN [status |-> "fatal", node |-> node]
    ELSE [status |-> "ok", node |-> [node EXCEPT !.items = swap_and_pop(@, idx)]]

cson_remove_all(node) ==
    IF node.kind # CSON_OBJECT /\ node.kind # CSON_ARRAY
    THEN [status |-> "fatal", node |-> node]
    ELSE [status |-> "ok", node |-> [node EXCEPT !.items = <<>>]]

\* --------------------------------------------------------- typed accessors
cson_nodes_t(node) == [items |-> node.items, len |-> Len(node.items), cap |-> node.cap]

cson_to_object(node) ==
    IF node.kind # CSON_OBJECT THEN [status |-> "fatal", ret |-> NULL]
    ELSE [status |-> "ok", ret |-> cson_nodes_t(node)]

cson_to_array(node) ==
    IF node.kind # CSON_ARRAY THEN [status |-> "fatal", ret |-> NULL]
    ELSE [status |-> "ok", ret |-> cson_nodes_t(node)]

\* Mutant of cson_to_number: no check of the kind.
cson_to_number_unchecked(node) == [status |-> "ok", ret |-> node.number]

cson_to_number(node) ==
    IF node.kind # CSON_NUMBER THEN [status |-> "fatal", ret |-> NULL]
    ELSE [status |-> "ok", ret |-> node.number]

cson_to_boolean(node) ==
    IF node.kind # CSON_BOOLEAN THEN [status |-> "fatal", ret |-> NULL]
    ELSE [status |-> "ok", ret |-> node.boolean]

cson_to_string(node) ==
    IF node.kind # CSON_STRING THEN [status |-> "fatal", ret |-> NULL]
    ELSE [status |-> "ok", ret |-> node.string]

\* ------------------------------------------------------- number conversion
RECURSIVE StripLeadingZeros(_)
StripLeadingZeros(d) ==
    IF d # <<>> /\ Head(d) = 0 THEN StripLeadingZeros(Tail(d)) ELSE d

RECURSIVE StripTrailingZeros(_)
StripTrailingZeros(d) ==
    IF d # <<>> /\ d[Len(d)] = 0 THEN StripTrailingZeros(SubSeq(d, 1, Len(d) - 1)) ELSE d

Zeros(n) == [i \in 1..n |-> 0]

DigitText(d) == [i \in 1..Len(d) |-> DigitChars[d[i] + 1]]

DigitValue(ch) == (CHOOSE i \in 1..10 : DigitChars[i] = ch) - 1

\* d + 1 on a digit sequence of fixed length; carry tells that it overflowed.
RECURSIVE Increment(_)
Increment(d) ==
    IF d = <<>> THEN [digits |-> <<>>, carry |-> TRUE]
    ELSE IF d[Len(d)] < 9
         THEN [digits |-> [d EXCEPT ![Len(d)] = @ + 1], carry |-> FALSE]
         ELSE LET r == Increment(SubSeq(d, 1, Len(d) - 1))
              IN  [digits |-> Append(r.digits, 0), carry |-> r.carry]

\* The precision of the "%.15g" conversion.
Precision == 15

\* The decimal exponent X of a nonzero number and its significant digits
\* rounded to Precision places, as the g conversion computes them.
Rounded(number) ==
    LET lz == Len(number.frac) - Len(StripLeadingZeros(number.frac))
        X == IF number.int # <<>> THEN Len(number.int) - 1 ELSE -(lz + 1)
        sig == StripLeadingZeros(number.int \o number.frac)
    IN  IF Len(sig) <= Precision THEN [X |-> X, digits |-> sig]
        ELSE LET kept == SubSeq(sig, 1, Precision)
             IN  IF sig[Precision + 1] < 5 THEN [X |-> X, digits |-> kept]
                 ELSE LET up == Increment(kept)
                      IN  IF up.carry
                          THEN [X |-> X + 1, digits |-> <<1>> \o Zeros(Precision - 1)]
                          ELSE [X |-> X, digits |-> up.digits]

\* The exponent of the e style: a sign and at least two digits.
ExponentText(X) ==
    LET a == IF X < 0 THEN -X ELSE X
    IN  <<"e", IF X < 0 THEN "-" ELSE "+">>
        \o (IF a < 10 THEN DigitText(<<0, a>>) ELSE DigitText(<<a \div 10, a % 10>>))

\* fprintf(f, "%.15g", number): style e when X < -4 or X >= Precision, style f
\* otherwise, trailing zeros (and a trailing point) removed.
format_g(number) ==
    IF number.int = <<>> /\ number.frac = <<>>
    THEN (IF number.neg THEN <<"-", "0">> ELSE <<"0">>)
    ELSE LET r == Rounded(number)
             m == StripTrailingZeros(r.digits)
             sign == IF number.neg THEN <<"-">> ELSE <<>>
             point(d) == IF d = <<>> THEN <<>> ELSE <<".">> \o DigitText(d)
         IN  IF r.X < -4 \/ r.X >= Precision
             THEN sign \o DigitText(<<m[1]>>) \o point(Tail(m)) \o ExponentText(r.X)
             ELSE IF r.X >= 0
             THEN IF Len(m) <= r.X + 1
                  THEN sign \o DigitText(m \o Zeros(r.X + 1 - Len(m)))
                  ELSE sign \o DigitText(SubSeq(m, 1, r.X + 1))
                       \o point(SubSeq(m, r.X + 2, Len(m)))
             ELSE sign \o <<"0">> \o point(Zeros(-r.X - 1) \o m)

\* strtod on the text of a number token (digits, then optionally a point and
\* digits).
strtod(text) ==
    LET dots == {i \in 1..Len(text) : text[i] = "."}
        dot == IF dots = {} THEN Len(text) + 1 ELSE CHOOSE i \in dots : TRUE
        digits(t) == [i \in 1..Len(t) |-> DigitValue(t[i])]
    IN  Num(FALSE,
            StripLeadingZeros(digits(SubSeq(text, 1, dot - 1))),
            StripTrailingZeros(digits(SubSeq(text, dot + 1, Len(text)))))

\* ------------------------------------------------------------------ writer
\* The stream f: what has been written, and whether the process still runs.
stdout == [status |-> "ok", text |-> <<>>]

\* fprintf(f, fmt) with a format that holds no conversion.
fputs(f, text) == IF f.status = "ok" THEN [f EXCEPT !.text = @ \o text] ELSE f

\* What fprintf writes for a conversion that has no argument.
Garbage == <<"?">>

\* fprintf(f, fmt) with the caller's text as the format, from position i on:
\* "%%" writes one '%'; any other '%' is a conversion without an argument
\* (undefined behaviour), and a '%' that ends the text makes glibc stop.
RECURSIVE fprintf_from(_, _, _, _)
fprintf_from(f, fmt, i, ub) ==
    IF f.status # "ok" \/ i > Len(fmt) THEN f
    ELSE IF fmt[i] # "%" THEN fprintf_from(fputs(f, <<fmt[i]>>), fmt, i + 1, ub)
    ELSE IF i < Len(fmt) /\ fmt[i + 1] = "%"
         THEN fprintf_from(fputs(f, <<"%">>), fmt, i + 2, ub)
    ELSE IF ub = "crash" THEN [f EXCEPT !.status = "crash"]
    ELSE IF i = Len(fmt) THEN f
    ELSE fprintf_from(fputs(f, Garbage), fmt, i + 2, ub)

\* fprintf(f, fmt): a null format is undefined behaviour (glibc writes
\* nothing).
fprintf(f, fmt, ub) ==
    IF f.status # "ok" THEN f
    ELSE IF fmt = NULL
         THEN (IF ub = "crash" THEN [f EXCEPT !.status = "crash"] ELSE f)
    ELSE IF \A i \in 1..Len(fmt) : fmt[i] # "%" THEN fputs(f, fmt)
    ELSE fprintf_from(f, fmt, 1, ub)

\* fprintf(f, "%s", s): a null s is undefined behaviour (glibc writes
\* "(null)").
fprintf_s(f, s, ub) ==
    IF f.status # "ok" THEN f
    ELSE IF s = NULL
         THEN (IF ub = "crash" THEN [f EXCEPT !.status = "crash"]
               ELSE fputs(f, <<"(", "n", "u", "l", "l", ")">>))
    ELSE fputs(f, s)

RECURSIVE cson__dump_indent_from(_, _, _)
cson__dump_indent_from(f, level, i) ==
    IF f.status # "ok" \/ ~(i < level) THEN f
    ELSE cson__dump_indent_from(fputs(f, <<" ", " ", " ", " ">>), level, i + 1)

cson__dump_indent(f, level) == cson__dump_indent_from(f, level, 0)

RECURSIVE cson__dump_value(_, _, _, _, _)
RECURSIVE cson__dump_pair(_, _, _, _, _)
RECURSIVE dump_object_from(_, _, _, _, _)
RECURSIVE dump_array_from(_, _, _, _, _)

cson__dump_pair(node, f, level, comma, ub) ==
    LET f1 == cson__dump_indent(f, level)
        f2 == fputs(fprintf_s(fputs(f1, <<"\"">>), node.key, ub), <<"\"", ":", " ">>)
        f3 == cson__dump_value(node, f2, level, FALSE, ub)
    IN  IF comma THEN fputs(f3, <<",", "\n">>) ELSE fputs(f3, <<"\n">>)

\* The for loop of the CSON_OBJECT case from index i on.
dump_object_from(node, f, level, i, ub) ==
    IF f.status # "ok" \/ ~(i < Len(node.items)) THEN f
    ELSE LET subnode == node.items[i + 1]
             comma == IF i = Len(node.items) - 1 THEN FALSE ELSE TRUE
         IN  dump_object_from(node, cson__dump_pair(subnode, f, level + 1, comma, ub),
                              level, i + 1, ub)

\* The for loop of the CSON_ARRAY case from index i on.
dump_array_from(node, f, level, i, ub) ==
    IF f.status # "ok" \/ ~(i < Len(node.items)) THEN f
    ELSE LET subnode == node.items[i + 1]
             f1 == cson__dump_value(subnode, f, level + 1, TRUE, ub)
             f2 == IF i = Len(node.items) - 1 THEN fputs(f1, <<"\n">>)
                   ELSE fputs(f1, <<",", "\n">>)
         IN  dump_array_from(node, f2, level, i + 1, ub)

cson__dump_value(node, f, level, indent, ub) ==
    LET f0 == IF indent THEN cson__dump_indent(f, level) ELSE f
    IN  CASE node.kind = CSON_OBJECT ->
               fputs(cson__dump_indent(
                         dump_object_from(node, fputs(f0, <<"{", "\n">>), level, 0, ub),
                         level),
                     <<"}">>)
          [] node.kind = CSON_ARRAY ->
               fputs(cson__dump_indent(
                         dump_array_from(node, fputs(f0, <<"[", "\n">>), level, 0, ub),
                         level),
                     <<"]">>)
          [] node.kind = CSON_STRING ->
               fputs(fprintf(fputs(f0, <<"\"">>), node.string, ub), <<"\"">>)
          [] node.kind = CSON_NUMBER -> fputs(f0, format_g(node.number))
          [] node.kind = CSON_BOOLEAN ->
               IF node.boolean THEN fputs(f0, <<"t", "r", "u", "e">>)
               ELSE fputs(f0, <<"f", "a", "l", "s", "e">>)
          [] node.kind = CSON_NULL -> fputs(f0, <<"n", "u", "l", "l">>)
          [] OTHER -> f0

cson_write(root, f, ub) == cson__dump_value(root, f, 0, TRUE, ub)

\* ------------------------------------------------------------------- lexer
cson_token_kind_t ==
    {"CSON_TK_LCURLY", "CSON_TK_RCURLY", "CSON_TK_LSQUARE", "CSON_TK_RSQUARE",
     "CSON_TK_COMMA", "CSON_TK_COLON", "CSON_TK_TRUE", "CSON_TK_FALSE",
     "CSON_TK_STRING", "CSON_TK_NUMBER", "CSON_TK_NULL", "CSON_TK_EOF"}

\* A pointer into the buffer is an offset from its first byte; the byte at
\* offset Len(buffer) is the terminating NUL, and no byte beyond it belongs
\* to the buffer.
At(buffer, p) == IF p < Len(buffer) THEN buffer[p + 1] ELSE NUL

cson_token_t(kind, start, len) == [kind |-> kind, start |-> start, len |-> len]

cson_lexer_t(start, current) == [start |-> start, current |-> current]

\* The bytes a token views.
TokenText(buffer, token) == SubSeq(buffer, token.start + 1, token.start + token.len)

\* A lexer step returns the token and the lexer after it; status "oob" says
\* that the step read a byte beyond the terminating NUL (undefined behaviour).
Lexed(status, token, lex) == [status |-> status, token |-> token, lex |-> lex]

NoToken == cson_token_t("CSON_TK_EOF", 0, 0)

\* while (isdigit(*p)) p++ from offset p: the first offset whose byte is no
\* digit (the NUL is none).
skip_digits(buffer, p) ==
    CHOOSE j \in p..Len(buffer) :
        /\ ~isdigit(At(buffer, j))
        /\ \A k \in p..(j - 1) : isdigit(At(buffer, k))

\* while (isspace(*p)) p++ from offset p (the NUL is no space).
skip_space(buffer, p) ==
    CHOOSE j \in p..Len(buffer) :
        /\ ~isspace(At(buffer, j))
        /\ \A k \in p..(j - 1) : isspace(At(buffer, k))

cson__make_punc(buffer, lex, kind) ==
    Lexed("ok", cson_token_t(kind, lex.current, 1),
          [lex EXCEPT !.current = @ + 1])

cson__make_string(buffer, lex) ==
    LET quotes == {j \in (lex.current + 1)..(Len(buffer) - 1) : At(buffer, j) = "\""}
    IN  IF quotes = {}
        THEN Lexed("oob", NoToken, [lex EXCEPT !.current = Len(buffer) + 1])
        ELSE LET close == CHOOSE j \in quotes : \A k \in quotes : j <= k
                 current == close + 1
             IN  Lexed("ok",
                       cson_token_t("CSON_TK_STRING", lex.start + 1,
                                    current - lex.start - 2),
                       [lex EXCEPT !.current = current])

cson__make_number(buffer, lex) ==
    LET p == skip_digits(buffer, lex.current)
        current == IF At(buffer, p) # "." THEN p ELSE skip_digits(buffer, p + 1)
    IN  Lexed("ok", cson_token_t("CSON_TK_NUMBER", lex.start, current - lex.start),
              [lex EXCEPT !.current = current])

\* garbage is the value the uninitialised token.kind holds when the switch
\* matches no case.
cson__make_literal(buffer, lex, garbage) ==
    LET ch == At(buffer, lex.start)
        kind == CASE ch = "f" -> "CSON_TK_FALSE"
                  [] ch = "n" -> "CSON_TK_NULL"
                  [] ch = "t" -> "CSON_TK_TRUE"
                  [] OTHER -> garbage
        current == CASE ch = "f" -> lex.current + 5
                     [] ch = "n" -> lex.current + 4
                     [] ch = "t" -> lex.current + 4
                     [] OTHER -> lex.current
    IN  Lexed("ok", cson_token_t(kind, lex.start, current - lex.start),
              [lex EXCEPT !.current = current])

cson__make_eof(buffer, lex) ==
    Lexed("ok", cson_token_t("CSON_TK_EOF", lex.start, 1), lex)

\* The dispatch of cson__get_next_token on the byte ch at lex.start.
next_token_at(buffer, lex, ch, garbage) ==
    IF ch = NUL THEN cson__make_eof(buffer, lex)
    ELSE IF isdigit(ch) THEN cson__make_number(buffer, lex)
    ELSE IF ch = "\"" THEN cson__make_string(buffer, lex)
    ELSE IF isalpha(ch) THEN cson__make_literal(buffer, lex, garbage)
    ELSE CASE ch = "{" -> cson__make_punc(buffer, lex, "CSON_TK_LCURLY")
           [] ch = "}" -> cson__make_punc(buffer, lex, "CSON_TK_RCURLY")
           [] ch = "[" -> cson__make_punc(buffer, lex, "CSON_TK_LSQUARE")
           [] ch = "]" -> cson__make_punc(buffer, lex, "CSON_TK_RSQUARE")
           [] ch = ":" -> cson__make_punc(buffer, lex, "CSON_TK_COLON")
           [] ch = "," -> cson__make_punc(buffer, lex, "CSON_TK_COMMA")
           [] OTHER -> Lexed("fatal", NoToken, lex)

\* cson__get_next_token once the whitespace is skipped up to current.
next_token_from(buffer, current, garbage) ==
    next_token_at(buffer, cson_lexer_t(current, current), At(buffer, current), garbage)

cson__get_next_token(buffer, lex, garbage) ==
    IF lex.current > Len(buffer) THEN Lexed("oob", NoToken, lex)
    ELSE next_token_from(buffer, skip_space(buffer, lex.current), garbage)

\* if (token.kind != kind) cson__fatal(...)
expect(r, kind) ==
    IF r.status = "ok" /\ r.token.kind # kind THEN [r EXCEPT !.status = "fatal"] ELSE r

cson__match(buffer, lex, kind, garbage) ==
    expect(cson__get_next_token(buffer, lex, garbage), kind)

\* The token of a copy of the lexer; the lexer itself stays.
cson__peek(buffer, lex, garbage) ==
    [cson__get_next_token(buffer, lex, garbage) EXCEPT !.lex = lex]

\* ------------------------------------------------------------------ parser
\* A parser step returns the node and the lexer after it; status "hang" says
\* that the loop repeats without consuming input.  The uninitialised kind
\* of a token is taken to be the same value each time the call reads one.
Parsed(status, node, lex) == [status |-> status, node |-> node, lex |-> lex]

RECURSIVE cson__parse_value(_, _, _)
RECURSIVE cson__parse_pair(_, _, _)
RECURSIVE parse_array_loop(_, _, _, _)
RECURSIVE parse_object_loop(_, _, _, _)

cson__parse_array(buffer, lex, garbage) ==
    parse_array_loop(buffer, lex, cson_create_array(NULL), garbage)

cson__parse_object(buffer, lex, garbage) ==
    parse_object_loop(buffer, lex, cson_create_object(NULL), garbage)

\* The switch of cson__parse_value on the token r it has read.
parse_value_of(buffer, r, node, garbage) ==
    IF r.status # "ok" THEN Parsed(r.status, node, r.lex)
    ELSE CASE r.token.kind = "CSON_TK_NULL" ->
                Parsed("ok", [node EXCEPT !.kind = CSON_NULL], r.lex)
           [] r.token.kind = "CSON_TK_NUMBER" ->
                Parsed("ok", [node EXCEPT !.kind = CSON_NUMBER,
                                          !.number = strtod(TokenText(buffer, r.token))],
                       r.lex)
           [] r.token.kind = "CSON_TK_TRUE" ->
                Parsed("ok", [node EXCEPT !.kind = CSON_BOOLEAN, !.boolean = TRUE], r.lex)
           [] r.token.kind = "CSON_TK_FALSE" ->
                Parsed("ok", [node EXCEPT !.kind = CSON_BOOLEAN, !.boolean = FALSE], r.lex)
           [] r.token.kind = "CSON_TK_STRING" ->
                Parsed("ok",
                       [node EXCEPT !.kind = CSON_STRING,
                                    !.string = cson__strndup(TokenText(buffer, r.token),
                                                             r.token.len)],
                       r.lex)
           [] r.token.kind = "CSON_TK_LCURLY" -> cson__parse_object(buffer, r.lex, garbage)
           [] r.token.kind = "CSON_TK_LSQUARE" ->
                \* A '[' that consumed nothing is read again by the array's
                \* loop: the recursion never ends and exhausts the stack.
                IF r.lex.current = r.lex.start THEN Parsed("crash", node, r.lex)
                ELSE cson__parse_array(buffer, r.lex, garbage)
           [] OTHER -> Parsed("fatal", node, r.lex)

cson__parse_value(buffer, lex, garbage) ==
    parse_value_of(buffer, cson__get_next_token(buffer, lex, garbage), ZeroNode, garbage)

\* node.key = cson__strndup(key.start, key.len) on the value parsed.
pair_keyed(buffer, key, value) ==
    IF value.status # "ok" THEN value
    ELSE Parsed("ok",
                [value.node EXCEPT
                    !.key = cson__strndup(TokenText(buffer, key.token), key.token.len)],
                value.lex)

\* cson__parse_pair after the ':' was matched.
pair_value(buffer, key, colon, garbage) ==
    IF colon.status # "ok" THEN Parsed(colon.status, ZeroNode, colon.lex)
    ELSE pair_keyed(buffer, key, cson__parse_value(buffer, colon.lex, garbage))

\* cson__parse_pair after the key was matched.
pair_colon(buffer, key, garbage) ==
    IF key.status # "ok" THEN Parsed(key.status, ZeroNode, key.lex)
    ELSE pair_value(buffer, key, cson__match(buffer, key.lex, "CSON_TK_COLON", garbage),
                    garbage)

cson__parse_pair(buffer, lex, garbage) ==
    pair_colon(buffer, cson__match(buffer, lex, "CSON_TK_STRING", garbage), garbage)

\* cson__match(lex, close) after the loop, and the return.
loop_end(m, node) == Parsed(m.status, node, m.lex)

\* The comma branch: a token that consumed nothing is read again forever.
array_comma(buffer, r, node, garbage) ==
    IF r.lex.current = r.lex.start THEN Parsed("hang", node, r.lex)
    ELSE parse_array_loop(buffer, r.lex, node, garbage)

array_value(buffer, value_node, node, garbage) ==
    IF value_node.status # "ok" THEN Parsed(value_node.status, node, value_node.lex)
    ELSE parse_array_loop(buffer, value_node.lex,
                          cson_append(node, value_node.node).node, garbage)

array_round(buffer, lex, node, peeked, garbage) ==
    IF peeked.status # "ok" THEN Parsed(peeked.status, node, lex)
    ELSE IF peeked.token.kind = "CSON_TK_RSQUARE"
    THEN loop_end(cson__match(buffer, lex, "CSON_TK_RSQUARE", garbage), node)
    ELSE IF peeked.token.kind = "CSON_TK_COMMA"
    THEN array_comma(buffer, cson__get_next_token(buffer, lex, garbage), node, garbage)
    ELSE array_value(buffer, cson__parse_value(buffer, lex, garbage), node, garbage)

\* One round of the while (1) of cson__parse_array, then the rest.
parse_array_loop(buffer, lex, node, garbage) ==
    array_round(buffer, lex, node, cson__peek(buffer, lex, garbage), garbage)

object_comma(buffer, r, node, garbage) ==
    IF r.lex.current = r.lex.start THEN Parsed("hang", node, r.lex)
    ELSE parse_object_loop(buffer, r.lex, node, garbage)

object_pair(buffer, pair_node, node, garbage) ==
    IF pair_node.status # "ok" THEN Parsed(pair_node.status, node, pair_node.lex)
    ELSE parse_object_loop(buffer, pair_node.lex,
                           cson_append(node, pair_node.node).node, garbage)

object_round(buffer, lex, node, peeked, garbage) ==
    IF peeked.status # "ok" THEN Parsed(peeked.status, node, lex)
    ELSE IF peeked.token.kind = "CSON_TK_RCURLY"
    THEN loop_end(cson__match(buffer, lex, "CSON_TK_RCURLY", garbage), node)
    ELSE IF peeked.token.kind = "CSON_TK_COMMA"
    THEN object_comma(buffer, cson__get_next_token(buffer, lex, garbage), node, garbage)
    ELSE object_pair(buffer, cson__parse_pair(buffer, lex, garbage), node, garbage)

\* One round of the while (1) of cson__parse_object, then the rest.
parse_object_loop(buffer, lex, node, garbage) ==
    object_round(buffer, lex, node, cson__peek(buffer, lex, garbage), garbage)

\* cson_load_buffer after the leading '{' was matched.
load_root(buffer, m, garbage) ==
    IF m.status # "ok" THEN Parsed(m.status, ZeroNode, m.lex)
    ELSE cson__parse_object(buffer, m.lex, garbage)

cson_load_buffer(buffer, garbage) ==
    load_root(buffer, cson__match(buffer, cson_lexer_t(0, 0), "CSON_TK_LCURLY", garbage),
              garbage)

\* ------------------------------------------------------------ sample input
\* Arguments the driver hands to the constructors and the other calls.
KeyArgs == {NULL, <<"a">>, <<"b">>}

N28 == Num(FALSE, <<2, 8>>, <<>>)                    \* 28
N32 == Num(FALSE, <<3, 2>>, <<>>)                    \* 32
Lat == Num(FALSE, <<3, 7>>, <<7, 7, 4, 9>>)          \* 37.7749
Lng == Num(TRUE, <<1, 2, 2>>, <<4, 1, 9, 4>>)        \* -122.4194
East == Num(FALSE, <<1, 2, 2>>, <<4, 1, 9, 4>>)      \* 122.4194

Arg(key, value) == [key |-> key, value |-> value]

ObjectArgs == {NULL, <<"a">>}

ArrayArgs == {NULL, <<"b">>}

NumberArgs == {Arg(<<"a">>, N28), Arg(<<"b">>, Lng)}

BooleanArgs == {Arg(<<"a">>, TRUE)}

StringArgs ==
    {Arg(<<"a">>, <<"x">>),
     Arg(<<"b">>, <<"5", "%">>),
     Arg(<<"b">>, <<"%", "s", "%", "s", "%", "s", "%", "s", "%", "s", "%", "s">>),
     Arg(NULL, <<"x">>)}

NullArgs == {<<"a">>}

\* The container node after cson_append of each of items (1 to 16 of them)
\* in turn: the first append allocates 16 slots.
Holding(node, items) == [node EXCEPT !.items = items, !.cap = 16]

\* The tree of the header's serialization example.
JohnDoe ==
    Holding(cson_create_object(NULL),
            <<cson_create_string(<<"n", "a", "m", "e">>,
                                 <<"J", "o", "h", "n", " ", "D", "o", "e">>),
              cson_create_number(<<"a", "g", "e">>, N28)>>)

\* The nested objects of the serialization example program.
Coordinates(lat, lng) ==
    LET coord == Holding(cson_create_object(<<"c", "o", "o", "r", "d", "i", "n", "a", "t",
                                              "e", "s">>),
                         <<cson_create_number(<<"l", "a", "t">>, lat),
                           cson_create_number(<<"l", "n", "g">>, lng)>>)
        address == Holding(cson_create_object(<<"a", "d", "d", "r", "e", "s", "s">>),
                           <<coord>>)
    IN  Holding(cson_create_object(NULL), <<address>>)

\* An array that fills its first allocation: the numbers 0..n-1.
Filled(n) ==
    Holding(cson_create_array(NULL),
            [i \in 1..n |->
                cson_create_number(NULL,
                    Num(FALSE, StripLeadingZeros(<<(i - 1) \div 10, (i - 1) % 10>>), <<>>))])

\* An object with a key held twice, the first of them not at index 0.
Duplicates ==
    Holding(cson_create_object(NULL),
            <<cson_create_number(<<"b">>, Lng),
              cson_create_number(<<"a">>, N28),
              cson_create_string(<<"a">>, <<"x">>)>>)

\* An object whose only member is an object that holds the key "a".
Nested ==
    Holding(cson_create_object(NULL),
            <<Holding(cson_create_object(<<"b">>),
                      <<cson_create_number(<<"a">>, N28)>>)>>)

\* An array of three elements of three kinds.
Triple ==
    Holding(cson_create_array(NULL),
            <<cson_create_string(NULL, <<"x">>),
              cson_create_number(NULL, N28),
              cson_create_boolean(NULL, TRUE)>>)

\* The document of the deserialization example program.
JaneSmith ==
    <<"{", "\n", " ", " ", "\"", "n", "a", "m", "e", "\"", ":", " ", "\"",
      "J", "a", "n", "e", " ", "S", "m", "i", "t", "h", "\"", ",", "\n", " ",
      " ", "\"", "a", "g", "e", "\"", ":", " ", "3", "2", ",", "\n", " ",
      " ", "\"", "o", "c", "c", "u", "p", "a", "t", "i", "o", "n", "\"", ":",
      " ", "\"", "S", "o", "f", "t", "w", "a", "r", "e", " ", "E", "n", "g",
      "i", "n", "e", "e", "r", "\"", ",", "\n", " ", " ", "\"", "m", "a",
      "r", "r", "i", "e", "d", "\"", ":", " ", "t", "r", "u", "e", ",", "\n",
      " ", " ", "\"", "s", "k", "i", "l", "l", "s", "\"", ":", " ", "[",
      "\"", "J", "a", "v", "a", "S", "c", "r", "i", "p", "t", "\"", ",", " ",
      "\"", "P", "y", "t", "h", "o", "n", "\"", ",", " ", "\"", "C", "+",
      "+", "\"", "]", "\n", "}">>

\* Well-formed documents with the trees they denote.
NegativeDoc == <<"{", "\"", "l", "n", "g", "\"", ":", " ", "-", "1", "2", "2", ".", "4", "1",
                 "9", "4", "}">>

NegativeTree ==
    Holding(cson_create_object(NULL), <<cson_create_number(<<"l", "n", "g">>, Lng)>>)

JaneSmithTree ==
    Holding(cson_create_object(NULL),
            <<cson_create_string(<<"n", "a", "m", "e">>,
                                 <<"J", "a", "n", "e", " ", "S", "m", "i", "t", "h">>),
              cson_create_number(<<"a", "g", "e">>, N32),
              cson_create_string(<<"o", "c", "c", "u", "p", "a", "t", "i", "o", "n">>,
                                 <<"S", "o", "f", "t", "w", "a", "r", "e", " ", "E", "n", "g",
                                   "i", "n", "e", "e", "r">>),
              cson_create_boolean(<<"m", "a", "r", "r", "i", "e", "d">>, TRUE),
              Holding(cson_create_array(<<"s", "k", "i", "l", "l", "s">>),
                      <<cson_create_string(NULL, <<"J", "a", "v", "a", "S", "c", "r", "i", "p",
                                                   "t">>),
                        cson_create_string(NULL, <<"P", "y", "t", "h", "o", "n">>),
                        cson_create_string(NULL, <<"C", "+", "+">>)>>)>>)

CompactDoc == <<"{", "\"", "a", "\"", ":", "[", "1", ",", "2", ".", "5", "0", ",", "[", "]",
                ",", "{", "}", "]", ",", "\"", "a", "\"", ":", "n", "u", "l", "l", ",",
                "\"", "b", "\"", ":", "f", "a", "l", "s", "e", "}">>

CompactTree ==
    Holding(cson_create_object(NULL),
            <<Holding(cson_create_array(<<"a">>),
                      <<cson_create_number(NULL, Num(FALSE, <<1>>, <<>>)),
                        cson_create_number(NULL, Num(FALSE, <<2>>, <<5>>)),
                        cson_create_array(NULL),
                        cson_create_object(NULL)>>),
              cson_create_null(<<"a">>),
              cson_create_boolean(<<"b">>, FALSE)>>)

\* Documents that are not well formed.
Malformed ==
    {<<"{">>, <<"[", "]">>, <<"{", "\"", "a">>, <<"{", "\"", "a", "\"", ":", "t">>,
     <<"{", "\"", "a", "\"", ":", "x", "}">>, <<"{", "\"", "a", "\"", ":", "1", "}", "}">>}

WellFormed ==
    {[text |-> JaneSmith, tree |-> JaneSmithTree],
     [text |-> CompactDoc, tree |-> CompactTree],
     [text |-> NegativeDoc, tree |-> NegativeTree]}

Documents == {d.text : d \in WellFormed} \cup Malformed

\* ------------------------------------------------------------- the heap
\* A block of memory got from malloc or realloc: the copy of a key, the
\* copy of a string, or the items of the container that carries key.
KeyBlock(key) == <<"key", key>>

StringBlock(string) == <<"string", string>>

ItemsBlock(key) == <<"items", key>>

\* The bag with one copy of block if present holds, the empty bag otherwise.
BlockIf(present, block) == IF present THEN SetToBag({block}) ELSE EmptyBag

RECURSIVE SumBags(_)
SumBags(bags) == IF bags = <<>> THEN EmptyBag ELSE Head(bags) (+) SumBags(Tail(bags))

\* What a constructor allocates for the node it returns: cson__strndup of
\* the key and of the string, each only when the argument is not NULL.
strndup_blocks(node) ==
    BlockIf(node.key # NULL, KeyBlock(node.key))
    (+) BlockIf(node.kind = CSON_STRING /\ node.string # NULL, StringBlock(node.string))

\* What cson_append allocates: the items, when the container has none yet
\* (realloc of an existing block gives the same block back, grown).
realloc_blocks(node) ==
    BlockIf(node.kind \in {CSON_ARRAY, CSON_OBJECT} /\ node.cap = 0, ItemsBlock(node.key))

\* Everything allocated while a tree was built by constructors and
\* cson_append (or by the parser, which builds it the same way).
RECURSIVE Built(_)
Built(node) ==
    strndup_blocks(node)
    (+) BlockIf(node.cap > 0, ItemsBlock(node.key))
    (+) SumBags([i \in 1..Len(node.items) |-> Built(node.items[i])])

\* cson_free(root): the bag of the blocks handed to free. The items pointer
\* is not NULL once cson_append has allocated (cap > 0).
RECURSIVE cson_free(_)
cson_free(root) ==
    BlockIf(root.key # NULL, KeyBlock(root.key))
    (+) CASE root.kind = CSON_STRING ->
               BlockIf(root.string # NULL, StringBlock(root.string))
          [] root.kind \in {CSON_ARRAY, CSON_OBJECT} ->
               SumBags([i \in 1..Len(root.items) |-> cson_free(root.items[i])])
               (+) BlockIf(root.cap > 0, ItemsBlock(root.key))
          [] OTHER -> EmptyBag

\* ------------------------------------------------------ the driver program
VARIABLES
    stack,      \* the driver's local nodes; stack[1] is the root
    budget,     \* how many nodes the driver may still create
    removes,    \* how many removal calls the driver has made
    written,    \* the cson_write calls so far: the node written and the stream
    call,       \* the last API call: its arguments, the node before it, its result
    heap,       \* the blocks allocated so far, the blocks released so far, and
                \* whether cson_remove_all was called
    pc          \* "run", "written", "loaded", "done", or how the process ended

vars == <<stack, budget, removes, written, call, heap, pc>>

Top == stack[Len(stack)]

\* The locals with the top one replaced.
WithTop(node) == [stack EXCEPT ![Len(stack)] = node]

Call(op, node, item, key, idx, status, ret) ==
    [op |-> op, node |-> node, item |-> item, key |-> key, idx |-> idx,
     status |-> status, ret |-> ret]

\* How the process goes on after a call that ended with status.
After(status) ==
    CASE status = "ok" -> "run"
      [] status = "fatal" -> "aborted"
      [] status = "crash" -> "crashed"
      [] status = "hang" -> "hung"
      [] OTHER -> "undefined"

\* The states a driver is in when the model starts to follow it: nothing
\* built yet, or a tree already built by the constructors and cson_append.
Programs ==
    {[stack |-> <<>>, budget |-> MaxNodes],
     [stack |-> <<>>, budget |-> 0],
     [stack |-> <<JohnDoe>>, budget |-> 1],
     [stack |-> <<Coordinates(Lat, Lng)>>, budget |-> 0],
     [stack |-> <<Coordinates(Lat, East)>>, budget |-> 0],
     [stack |-> <<Duplicates>>, budget |-> 1],
     [stack |-> <<Nested>>, budget |-> 1],
     [stack |-> <<Triple>>, budget |-> 1],
     [stack |-> <<Filled(16)>>, budget |-> 1]}

Init ==
    /\ \E p \in Programs :
          /\ stack = p.stack
          /\ budget = p.budget
          /\ heap = [allocated |-> SumBags([i \in 1..Len(p.stack) |-> Built(p.stack[i])]),
                     released |-> EmptyBag,
                     reset |-> FALSE]
    /\ removes = 0
    /\ written = <<>>
    /\ call = Call("none", ZeroNode, ZeroNode, NULL, 0, "ok", 0)
    /\ pc = "run"

Create(node) ==
    /\ pc = "run"
    /\ budget > 0
    /\ stack' = Append(stack, node)
    /\ budget' = budget - 1
    /\ call' = Call("create", ZeroNode, node, node.key, 0, "ok", 0)
    /\ heap' = [heap EXCEPT !.allocated = @ (+) strndup_blocks(node)]
    /\ UNCHANGED <<removes, written, pc>>

CreateObject == \E key \in ObjectArgs : Create(cson_create_object(key))

CreateArray == \E key \in ArrayArgs : Create(cson_create_array(key))

CreateNumber == \E a \in NumberArgs : Create(cson_create_number(a.key, a.value))

CreateBoolean == \E a \in BooleanArgs : Create(cson_create_boolean(a.key, a.value))

CreateString == \E a \in StringArgs : Create(cson_create_string(a.key, a.value))

CreateNull == \E key \in NullArgs : Create(cson_create_null(key))

\* cson_append(&below, top): the item moves into the node below it.
CallAppend ==
    /\ pc = "run"
    /\ Len(stack) >= 2
    /\ LET node == stack[Len(stack) - 1]
           r == cson_append(node, Top)
       IN  /\ stack' = IF r.status = "ok"
                       THEN Append(SubSeq(stack, 1, Len(stack) - 2), r.node)
                       ELSE stack
           /\ call' = Call("append", node, Top, NULL, 0, r.status, 0)
           /\ heap' = IF r.status = "ok"
                      THEN [heap EXCEPT !.allocated = @ (+) realloc_blocks(node)]
                      ELSE heap
           /\ pc' = After(r.status)
    /\ UNCHANGED <<budget, removes, written>>

RemoveWithKey ==
    /\ pc = "run"
    /\ Len(stack) = 1
    /\ removes < MaxRemoves
    /\ removes' = removes + 1
    /\ \E key \in KeyArgs, ub \in UBOutcomes :
          LET r == cson_remove_with_key(Top, key, ub)
          IN  /\ stack' = WithTop(r.node)
              /\ call' = Call("remove_with_key", Top, ZeroNode, key, 0, r.status, 0)
              /\ pc' = After(r.status)
    /\ UNCHANGED <<budget, written, heap>>

RemoveWithIdx ==
    /\ pc = "run"
    /\ Len(stack) = 1
    /\ removes < MaxRemoves
    /\ removes' = removes + 1
    /\ \E idx \in 0..MaxIdx :
          LET r == cson_remove_with_idx(Top, idx)
          IN  /\ stack' = WithTop(r.node)
              /\ call' = Call("remove_with_idx", Top, ZeroNode, NULL, idx, r.status, 0)
              /\ pc' = After(r.status)
    /\ UNCHANGED <<budget, written, heap>>

RemoveAll ==
    /\ pc = "run"
    /\ Len(stack) = 1
    /\ LET r == cson_remove_all(Top)
       IN  /\ stack' = WithTop(r.node)
           /\ call' = Call("remove_all", Top, ZeroNode, NULL, 0, r.status, 0)
           /\ heap' = [heap EXCEPT !.reset = TRUE]
           /\ pc' = After(r.status)
    /\ UNCHANGED <<budget, removes, written>>

Query ==
    /\ pc = "run"
    /\ Len(stack) = 1
    /\ \E key \in KeyArgs, ub \in UBOutcomes :
          LET r == cson_query(Top, key, ub)
          IN  /\ call' = Call("query", Top, ZeroNode, key, 0, r.status, r.ret)
              /\ pc' = After(r.status)
    /\ UNCHANGED <<stack, budget, removes, written, heap>>

\* One of the cson_to_* calls on the root.
Access(op, r) ==
    /\ pc = "run"
    /\ Len(stack) = 1
    /\ call' = Call(op, Top, ZeroNode, NULL, 0, r.status, r.ret)
    /\ pc' = After(r.status)
    /\ UNCHANGED <<stack, budget, removes, written, heap>>

CallToObject == Len(stack) = 1 /\ Access("to_object", cson_to_object(Top))

CallToArray == Len(stack) = 1 /\ Access("to_array", cson_to_array(Top))

CallToNumber == Len(stack) = 1 /\ Access("to_number", cson_to_number(Top))

CallToBoolean == Len(stack) = 1 /\ Access("to_boolean", cson_to_boolean(Top))

CallToString == Len(stack) = 1 /\ Access("to_string", cson_to_string(Top))

\* cson_write(&root, f) on a fresh stream, of the tree built or of the tree
\* loaded back.
Write ==
    /\ pc \in {"run", "loaded"}
    /\ Len(stack) = 1
    /\ \E ub \in UBOutcomes :
          LET f == cson_write(stack[1], stdout, ub)
          IN  /\ written' = Append(written, [node |-> stack[1], f |-> f])
              /\ call' = Call("write", stack[1], ZeroNode, NULL, 0, f.status, 0)
              /\ pc' = IF f.status # "ok" THEN After(f.status)
                       ELSE IF pc = "run" THEN "written" ELSE "done"
    /\ UNCHANGED <<stack, budget, removes, heap>>

\* root = cson_load_buffer(buffer), r being what the call returns.
Loaded(buffer, r, next) ==
    /\ stack' = IF r.status = "ok" THEN <<r.node>> ELSE stack
    /\ call' = Call("load", ZeroNode, ZeroNode, buffer, 0, r.status, 0)
    /\ heap' = IF r.status = "ok"
               THEN [heap EXCEPT !.allocated = @ (+) Built(r.node)]
               ELSE heap
    /\ pc' = IF r.status = "ok" THEN next ELSE After(r.status)
    /\ UNCHANGED <<budget, removes, written>>

Load(buffer, next) ==
    \E garbage \in cson_token_kind_t : Loaded(buffer, cson_load_buffer(buffer, garbage), next)

\* cson_free(&root), the last call of the driver.
Free ==
    /\ pc = "run"
    /\ Len(stack) = 1
    /\ heap' = [heap EXCEPT !.released = @ (+) cson_free(Top)]
    /\ call' = Call("free", Top, ZeroNode, NULL, 0, "ok", 0)
    /\ pc' = "freed"
    /\ UNCHANGED <<stack, budget, removes, written>>

\* The driver loads back the text it wrote.
LoadWritten == pc = "written" /\ Load(written[1].f.text, "loaded")

\* The driver starts by loading a document.
LoadDocument ==
    /\ pc = "run"
    /\ stack = <<>>
    /\ budget = 0
    /\ \E buffer \in Documents : Load(buffer, "run")

Next ==
    \/ CreateObject
    \/ CreateArray
    \/ CreateNumber
    \/ CreateBoolean
    \/ CreateString
    \/ CreateNull
    \/ CallAppend
    \/ RemoveWithKey
    \/ RemoveWithIdx
    \/ RemoveAll
    \/ Query
    \/ CallToObject
    \/ CallToArray
    \/ CallToNumber
    \/ CallToBoolean
    \/ CallToString
    \/ Write
    \/ Free
    \/ LoadWritten
    \/ LoadDocument

Spec == Init /\ [][Next]_vars

\* ------------------------------------------------- the lexer on its own
\* The calls of cson__get_next_token that cson__match, cson__peek and
\* cson__parse_value make on one lexer, one after the other, from the start
\* of a buffer until the EOF token (no caller asks for a token after it).
\* call.key is the buffer and call.ret the result of the last call.
\* The buffers lexed: the documents, and the text cson_write emits for the
\* trees of the example programs.
Buffers ==
    Documents \cup {cson_write(tree, stdout, "lenient").text :
                        tree \in {JohnDoe, Coordinates(Lat, Lng), Duplicates}}

LexInit ==
    /\ stack = <<>>
    /\ budget = 0
    /\ removes = 0
    /\ written = <<>>
    /\ heap = [allocated |-> EmptyBag, released |-> EmptyBag, reset |-> FALSE]
    /\ pc = "lexing"
    /\ \E buffer \in Buffers :
          call = Call("lex", ZeroNode, ZeroNode, buffer, 0, "ok",
                      Lexed("ok", NoToken, cson_lexer_t(0, 0)))

NextToken ==
    /\ pc = "lexing"
    /\ call.op = "token" => call.ret.token.kind # "CSON_TK_EOF"
    /\ \E garbage \in cson_token_kind_t :
          LET r == cson__get_next_token(call.key, call.ret.lex, garbage)
          IN  /\ call' = Call("token", ZeroNode, ZeroNode, call.key, 0, r.status, r)
              /\ pc' = IF r.status = "ok" THEN "lexing" ELSE After(r.status)
    /\ UNCHANGED <<stack, budget, removes, written, heap>>

LexNext == NextToken

LexSpec == LexInit /\ [][LexNext]_vars

\* ------------------------------------------------------------------ claims
\* The root before the last call and after it.
Before == call.node

Root == stack[1]

\* Every child of node carries a key.
AllKeyed(node) == \A i \in 1..Len(node.items) : node.items[i].key # NULL

\* The (1-based) positions of the children of node that carry key.
Holders(node, key) == {i \in 1..Len(node.items) : node.items[i].key = key}

Least(S) == CHOOSE i \in S : \A j \in S : i <= j

\* C3: cson_remove_with_idx(a, i) on an array of length n > 1 with i < n-1
\* puts the element that was at position n-1 at position i, leaves every
\* other position below n-1 as it was, and makes the length n-1.
C3_SwapAndPop ==
    (/\ call.op = "remove_with_idx"
     /\ Before.kind = CSON_ARRAY
     /\ Len(Before.items) > 1
     /\ call.idx < Len(Before.items) - 1)
    => LET n == Len(Before.items)
       IN  /\ call.status = "ok"
           /\ Len(Root.items) = n - 1
           /\ Root.items[call.idx + 1] = Before.items[n]
           /\ \A j \in 1..(n - 1) : j # call.idx + 1 => Root.items[j] = Before.items[j]

C3_Witness ==
    /\ call.op = "remove_with_idx"
    /\ call.status = "ok"
    /\ Before.kind = CSON_ARRAY
    /\ Len(Before.items) > 2
    /\ call.idx > 0
    /\ call.idx < Len(Before.items) - 2
    /\ Before.items[call.idx + 1] # Before.items[Len(Before.items)]
    /\ Len(Root.items) = Len(Before.items) - 1

\* C4: cson_remove_with_idx on an array of length len is fatal for every
\* idx >= len (len = 0 included); for idx = len-1 it succeeds and leaves the
\* first len-1 elements, unchanged.
C4_Bounds ==
    (call.op = "remove_with_idx" /\ Before.kind = CSON_ARRAY)
    => LET len == Len(Before.items)
       IN  /\ call.idx >= len => (call.status = "fatal" /\ pc = "aborted" /\ Root = Before)
           /\ call.idx = len - 1 =>
                 (/\ call.status = "ok"
                  /\ pc = "run"
                  /\ Len(Root.items) = len - 1
                  /\ \A j \in 1..(len - 1) : Root.items[j] = Before.items[j])

C4_Witness ==
    /\ call.op = "remove_with_idx"
    /\ Before.kind = CSON_ARRAY
    /\ Len(Before.items) >= 2
    /\ call.idx = Len(Before.items) - 1
    /\ call.status = "ok"
    /\ Len(Root.items) = Len(Before.items) - 1

\* The accessor op returned the value stored for kind, or was fatal on a node
\* of another kind.
Guarded(op, kind, value) ==
    call.op = op =>
        IF Before.kind = kind
        THEN call.status = "ok" /\ pc = "run" /\ call.ret = value
        ELSE call.status = "fatal" /\ pc = "aborted"

\* C5: each typed accessor returns the node's stored value when the node's
\* kind is the accessor's kind and is fatal for every other kind.
C5_TypeGuard ==
    /\ Guarded("to_number", CSON_NUMBER, Before.number)
    /\ Guarded("to_boolean", CSON_BOOLEAN, Before.boolean)
    /\ Guarded("to_string", CSON_STRING, Before.string)
    /\ Guarded("to_object", CSON_OBJECT,
               [items |-> Before.items, len |-> Len(Before.items), cap |-> Before.cap])
    /\ Guarded("to_array", CSON_ARRAY,
               [items |-> Before.items, len |-> Len(Before.items), cap |-> Before.cap])

C5_Witness ==
    /\ call.op = "to_number"
    /\ Before.kind = CSON_STRING
    /\ call.status = "fatal"
    /\ pc = "aborted"

\* C10: cson_append(container, node) is fatal when the container is neither
\* an array nor an object; otherwise node is at index len, len grew by one,
\* and the children at 0..len-1 are as they were.
C10_Append ==
    call.op = "append" =>
        IF Before.kind \notin {CSON_ARRAY, CSON_OBJECT}
        THEN call.status = "fatal" /\ pc = "aborted"
        ELSE LET len == Len(Before.items)
             IN  /\ call.status = "ok"
                 /\ Len(Top.items) = len + 1
                 /\ Top.items[len + 1] = call.item
                 /\ \A j \in 1..len : Top.items[j] = Before.items[j]

\* An append that had to grow a full allocation.
C10_Witness ==
    /\ call.op = "append"
    /\ call.status = "ok"
    /\ Len(Before.items) = 16
    /\ Before.cap = 16
    /\ Top.cap = 32
    /\ Len(Top.items) = 17

\* ----------------------------------------------------------- writer claims
Indent(level) == [i \in 1..(4 * level) |-> " "]

RECURSIVE Concat(_)
Concat(texts) == IF texts = <<>> THEN <<>> ELSE Head(texts) \o Concat(Tail(texts))

\* What the conversions make of a key and of a node that is no container.
KeyText(key) == fprintf_s(stdout, key, "lenient").text

ScalarText(node) == cson__dump_value(node, stdout, 0, FALSE, "lenient").text

\* The layout of a value written at nesting level `level`.
RECURSIVE Layout(_, _)
Layout(node, level) ==
    LET n == Len(node.items)
        sep(i) == IF i < n THEN <<",", "\n">> ELSE <<"\n">>
    IN  CASE node.kind = CSON_OBJECT ->
               <<"{", "\n">>
               \o Concat([i \in 1..n |->
                     Indent(level + 1) \o <<"\"">> \o KeyText(node.items[i].key)
                     \o <<"\"", ":", " ">> \o Layout(node.items[i], level + 1) \o sep(i)])
               \o Indent(level) \o <<"}">>
          [] node.kind = CSON_ARRAY ->
               <<"[", "\n">>
               \o Concat([i \in 1..n |->
                     Indent(level + 1) \o Layout(node.items[i], level + 1) \o sep(i)])
               \o Indent(level) \o <<"]">>
          [] OTHER -> ScalarText(node)

JohnDoeText ==
    <<"{", "\n", " ", " ", " ", " ", "\"", "n", "a", "m", "e", "\"", ":", " ", "\"",
      "J", "o", "h", "n", " ", "D", "o", "e", "\"", ",", "\n", " ", " ", " ", " ",
      "\"", "a", "g", "e", "\"", ":", " ", "2", "8", "\n", "}">>

\* ------------------------------------------------------ round-trip claims
\* A tree as the data model has it: the members of an object carry keys, the
\* elements of an array carry none, and a string is present and holds
\* neither '"' nor '%'.
RECURSIVE Shaped(_)
Shaped(node) ==
    CASE node.kind \in {CSON_OBJECT, CSON_ARRAY} ->
           \A i \in 1..Len(node.items) :
               /\ (node.items[i].key # NULL) <=> (node.kind = CSON_OBJECT)
               /\ Shaped(node.items[i])
      [] node.kind = CSON_STRING ->
           /\ node.string # NULL
           /\ \A i \in 1..Len(node.string) : node.string[i] \notin {"\"", "%"}
      [] OTHER -> TRUE

\* The same shape, the same keys in the same order, the same values (the
\* allocation sizes may differ).
RECURSIVE SameTree(_, _)
SameTree(a, b) ==
    /\ a.kind = b.kind
    /\ a.key = b.key
    /\ CASE a.kind = CSON_BOOLEAN -> a.boolean = b.boolean
         [] a.kind = CSON_NUMBER -> a.number = b.number
         [] a.kind = CSON_STRING -> a.string = b.string
         [] a.kind \in {CSON_OBJECT, CSON_ARRAY} ->
              /\ Len(a.items) = Len(b.items)
              /\ \A i \in 1..Len(a.items) : SameTree(a.items[i], b.items[i])
         [] OTHER -> TRUE

\* The last call loaded back the text of the first cson_write.
Reloaded == call.op = "load" /\ Len(written) = 1

\* C1: for every tree built with the constructors and cson_append (object
\* root), cson_load_buffer of the text cson_write emits for it yields a tree
\* of the same shape, keys and values.
C1_RoundTrip ==
    (/\ Reloaded
     /\ written[1].f.status = "ok"
     /\ written[1].node.kind = CSON_OBJECT
     /\ written[1].node.key = NULL
     /\ Shaped(written[1].node))
    => call.status = "ok" /\ SameTree(Root, written[1].node)

\* The root holds "address", which holds "coordinates", which holds two
\* numbers.
IsCoordinates(node) ==
    /\ node.kind = CSON_OBJECT
    /\ Len(node.items) = 1
    /\ node.items[1].kind = CSON_OBJECT
    /\ Len(node.items[1].items) = 1
    /\ LET coord == node.items[1].items[1]
       IN  /\ coord.kind = CSON_OBJECT
           /\ Len(coord.items) = 2
           /\ coord.items[1].kind = CSON_NUMBER
           /\ coord.items[2].kind = CSON_NUMBER
           /\ node = Coordinates(coord.items[1].number, coord.items[2].number)

\* C8: for a root holding "address" holding "coordinates" with two numbers,
\* cson_write, cson_load_buffer of that text and cson_write again give the
\* text of the first write.
C8_ByteIdentical ==
    (Len(written) >= 1 /\ IsCoordinates(written[1].node))
    => /\ written[1].f.status = "ok"
       /\ Reloaded => call.status = "ok"
       /\ Len(written) = 2 =>
             (written[2].f.status = "ok" /\ written[2].f.text = written[1].f.text)

\* The last call loaded the well-formed document d into an empty program.
LoadedDocument(d) == call.op = "load" /\ written = <<>> /\ call.key = d.text

\* C7: cson_load_buffer of a well-formed object-rooted document returns a
\* root whose members and array elements are the document's, in document
\* order, and cson_query(root, k) then returns the member with key k.
C7_LoadDocument ==
    \A d \in WellFormed :
        LoadedDocument(d)
        => /\ call.status = "ok"
           /\ pc = "run"
           /\ SameTree(Root, d.tree)
           /\ \A i \in 1..Len(d.tree.items) :
                 LET q == cson_query(Root, d.tree.items[i].key, "crash")
                 IN  /\ q.status = "ok"
                     /\ q.ret # -1
                     /\ Root.items[q.ret + 1].key = d.tree.items[i].key

\* ------------------------------------------------------- ownership claims
SameBag(a, b) ==
    \A block \in BagToSet(a) \cup BagToSet(b) : CopiesIn(block, a) = CopiesIn(block, b)

\* The child the last call, a removal that succeeded, took out of the root.
Removed ==
    IF call.op = "remove_with_idx" THEN <<Before.items[call.idx + 1]>>
    ELSE IF Holders(Before, call.key) = {} THEN <<>>
    ELSE <<Before.items[Least(Holders(Before, call.key))]>>

\* C11: a removal (by key, by index) releases the key, the string and the
\* descendants of the child it removes, at once; and after constructor,
\* cson_append and removal calls followed by one cson_free of the root, every
\* block allocated for the tree has been released, none of them twice.
C11_Ownership ==
    /\ (call.op \in {"remove_with_key", "remove_with_idx"} /\ call.status = "ok"
        /\ AllKeyed(Before))
       => \A i \in 1..Len(Removed) : cson_free(Removed[i]) \sqsubseteq heap.released
    /\ (pc = "freed" /\ ~heap.reset) => SameBag(heap.released, heap.allocated)

\* ------------------------------------------------------------ key claims
\* In node and below it, the children of an object carry keys and the
\* elements of an array carry none.
RECURSIVE Keyed(_)
Keyed(node) ==
    \A i \in 1..Len(node.items) :
        /\ node.kind = CSON_OBJECT => node.items[i].key # NULL
        /\ node.kind = CSON_ARRAY => node.items[i].key = NULL
        /\ Keyed(node.items[i])

\* C12: in every tree the constructors, cson_append, the removals and
\* cson_load_buffer lead to, every child of an object has a key and every
\* child of an array has none.
C12_Keys == \A i \in 1..Len(stack) : Keyed(stack[i])

\* ---------------------------------------------------------- lexer claims
\* A byte that starts no token.
Unknown(ch) ==
    /\ ch \notin {NUL, "\"", "{", "}", "[", "]", ",", ":", "t", "f", "n"}
    /\ ~isdigit(ch)

\* C13: when the byte after the whitespace is not NUL, a digit, '"', one of
\* { } [ ] , : or one of t, f, n, cson__get_next_token aborts and returns no
\* token.
C13_UnknownCharacter ==
    (call.op = "token" /\ Unknown(At(call.key, call.ret.lex.start)))
    => (call.status = "fatal" /\ pc = "aborted")

\* C16: the cursor of the lexer never moves past the terminating NUL, and
\* no byte beyond it is read.
C16_CursorInBuffer ==
    call.op = "token" => (call.status # "oob" /\ call.ret.lex.current <= Len(call.key))

\* C14: for every NUL-terminated buffer, well-formed or not (an object, an
\* array or a string left open included), cson_load_buffer finishes: it
\* returns a root or ends in a fatal abort, and never runs on for ever.
C14_Terminates ==
    call.op = "load" => (call.status \in {"ok", "fatal"} /\ pc \in {"run", "loaded", "aborted"})

\* ---------------------------------------------------------- string claims
\* C15: cson_write emits a String node as '"', then the stored bytes of the
\* string, all of them and unchanged whatever they are ('%' and backslash
\* sequences included), then '"'.
C15_StringVerbatim ==
    \A i \in 1..Len(written) :
        (written[i].node.kind = CSON_STRING /\ written[i].node.string # NULL)
        => /\ written[i].f.status = "ok"
           /\ written[i].f.text = <<"\"">> \o written[i].node.string \o <<"\"">>

\* ------------------------------------------------------ claims on objects
\* The members of node that carry key, as strcmp tells: none for a NULL key.
Matches(node, key) == IF key = NULL THEN {} ELSE Holders(node, key)

\* The scan of cson_query for key comes to a member of node that has no
\* key: strcmp is handed a null pointer.
MeetsKeyless(node, key) ==
    /\ key # NULL
    /\ \E i \in 1..Len(node.items) :
          /\ node.items[i].key = NULL
          /\ \A j \in 1..(i - 1) : node.items[j].key # key

\* C9: cson_query(object, key) returns the child of lowest index whose key
\* is key, a null pointer when no child carries key, looks at the direct
\* children only and leaves the tree as it was.
C9_FirstMatch ==
    (call.op = "query" /\ Before.kind = CSON_OBJECT)
    => /\ call.status = "ok"
       /\ pc = "run"
       /\ Root = Before
       /\ IF Matches(Before, call.key) = {} THEN call.ret = -1
          ELSE call.ret = Least(Matches(Before, call.key)) - 1

\* C2 as claimed: removing a key that a member carries takes one member away,
\* and cson_query for that key then finds nothing.
C2_Claimed ==
    (/\ call.op = "remove_with_key"
     /\ Before.kind = CSON_OBJECT
     /\ AllKeyed(Before)
     /\ Holders(Before, call.key) # {})
    => /\ call.status = "ok"
       /\ Len(Root.items) = Len(Before.items) - 1
       /\ cson_query(Root, call.key, "crash").ret = -1

\* C2, amended: removing a key that no member carries changes nothing;
\* removing a key that a member carries takes the first such member away (the
\* last member takes its place), and cson_query for that key then finds
\* nothing exactly when no other member carried it. The call is undefined,
\* and only then, when its scan comes to a member without a key; if it goes
\* wrong there, the object is as it was.
C2_RemoveWithKey ==
    (call.op = "remove_with_key" /\ Before.kind = CSON_OBJECT)
    => LET n == Len(Before.items)
           holders == Matches(Before, call.key)
       IN  /\ call.status \in {"ok", "crash"}
           /\ ~MeetsKeyless(Before, call.key) => call.status = "ok"
           /\ call.status = "crash" => Root = Before
           /\ (call.status = "ok" /\ holders = {}) => Root = Before
           /\ (call.status = "ok" /\ holders # {}) =>
                 /\ Len(Root.items) = n - 1
                 /\ \A j \in 1..(n - 1) :
                       Root.items[j] = IF j = Least(holders) THEN Before.items[n]
                                       ELSE Before.items[j]
                 /\ (cson_query(Root, call.key, "lenient").ret = -1)
                       <=> (Cardinality(holders) = 1)

C2_Witness ==
    /\ call.op = "remove_with_key"
    /\ call.status = "ok"
    /\ Before.kind = CSON_OBJECT
    /\ Cardinality(Matches(Before, call.key)) = 2
    /\ Least(Matches(Before, call.key)) < Len(Before.items) - 1
    /\ Len(Root.items) = Len(Before.items) - 1
    /\ cson_query(Root, call.key, "crash").ret # -1

\* In node and below it every string is present.
RECURSIVE Present(_)
Present(node) ==
    /\ node.kind = CSON_STRING => node.string # NULL
    /\ \A i \in 1..Len(node.items) : Present(node.items[i])

\* C6: cson_write of an object emits "{", a newline, each member in child
\* order on its own line as "<key>": <value>, 4 spaces per nesting level, a
\* comma after every member but the last, then "}" at the object's own level;
\* the object of the example is written as its four lines.
C6_ObjectLayout ==
    \A i \in 1..Len(written) :
        (/\ written[i].node.kind = CSON_OBJECT
         /\ Keyed(written[i].node)
         /\ Present(written[i].node))
        => /\ written[i].f.status = "ok"
           /\ written[i].f.text = Layout(written[i].node, 0)
           /\ written[i].node = JohnDoe => written[i].f.text = JohnDoeText

====
